---- MODULE Spec2Model ----
(***************************************************************************)
(* Model of the client application src/ai-agent-frontend/src/App.jsx: the  *)
(* React component App, its ten state cells, its four asynchronous         *)
(* handlers (checkAgentStatus, handleSearch, handleSearchAndAnalyze,       *)
(* handleChat), the key handler handleKeyPress and the controls that       *)
(* trigger them.                                                           *)
(*                                                                         *)
(* A text is a sequence of chunks; a chunk is either one whitespace        *)
(* character or a run of non-whitespace characters.  The empty text is     *)
(* <<>>, the only falsy string of JavaScript.                              *)
(*                                                                         *)
(* An asynchronous handler runs in two steps: the synchronous part up to   *)
(* its fetch (the submit step), and the continuation after the awaits (the *)
(* settle step), in which React applies all the state updates of the       *)
(* try/catch/finally together.  Between the two the request is a member of *)
(* inflight, carrying what the handler's closure captured.                 *)
(***************************************************************************)
EXTENDS Integers, Sequences, FiniteSets, TLC

VARIABLES
    searchQuery,    \* useState('')       App.jsx:16
    searchResults,  \* useState([])       App.jsx:17
    isSearching,    \* useState(false)    App.jsx:18
    chatMessages,   \* useState([])       App.jsx:19
    chatInput,      \* useState('')       App.jsx:20
    isChatting,     \* useState(false)    App.jsx:21
    analysis,       \* useState('')       App.jsx:22
    isAnalyzing,    \* useState(false)    App.jsx:23
    agentStatus,    \* useState(null)     App.jsx:24
    activeTab,      \* useState('search') App.jsx:25
    mounted,        \* the mount effect of App.jsx:28-30 has run
    inflight,       \* the requests issued by fetch and not yet settled
    nextId,         \* requests issued so far by the search controls and by chat,
                    \* and the id of the latest search-and-analyze request
    polls,          \* number of status polls issued so far
    last            \* the last step of a handler: handler, request, response

appState == <<searchQuery, searchResults, isSearching, chatMessages, chatInput,
              isChatting, analysis, isAnalyzing, agentStatus, activeTab>>

vars == <<searchQuery, searchResults, isSearching, chatMessages, chatInput,
          isChatting, analysis, isAnalyzing, agentStatus, activeTab,
          mounted, inflight, nextId, polls, last>>

----------------------------------------------------------------------------
(* Bounds *)

\* search, search-and-analyze and chat requests issued in one behaviour
MaxRequests == 2

----------------------------------------------------------------------------
(* Texts *)

EmptyText == <<>>

IsSpace(c) == c \in {" ", "\n", "\t"}

RECURSIVE TrimStart(_)
TrimStart(s) ==
    IF s = <<>> THEN <<>>
    ELSE IF IsSpace(Head(s)) THEN TrimStart(Tail(s)) ELSE s

RECURSIVE TrimEnd(_)
TrimEnd(s) ==
    IF s = <<>> THEN <<>>
    ELSE IF IsSpace(s[Len(s)]) THEN TrimEnd(SubSeq(s, 1, Len(s) - 1)) ELSE s

\* String.prototype.trim
Trim(s) == TrimEnd(TrimStart(s))

\* mutant: the guard compares with '' and does not trim
BlankNoTrim(s) == s = EmptyText

\* !text.trim(): the guard of the three submit handlers and of the buttons
Blank(s) == Trim(s) = EmptyText

\* what the user can type into the search input and the chat textarea
Texts == {<<>>, <<" ">>, <<"cats", " ">>}

Tabs == {"search", "analysis", "chat"}

----------------------------------------------------------------------------
(* Requests and responses *)

\* mutant: conversation_history: [...chatMessages, userMessage]
RequestWithNewMessage(id, kind, query, message, history) ==
    [id |-> id, kind |-> kind, query |-> query, message |-> message,
     history |-> IF kind = "chat"
                 THEN Append(history,
                             [role |-> "user", content |-> message, sub |-> id])
                 ELSE history]

\* A request in flight: the JSON body built by the submit step
\* (App.jsx:57-60, 84-87, 118-122; the status poll has no body).  id numbers
\* the requests of the search controls, and those of chat, in the order of
\* their submission.
Request(id, kind, query, message, history) ==
    [id |-> id, kind |-> kind, query |-> query, message |-> message,
     history |-> history]

\* ok: fetch resolved and response.json() parsed; data: the parsed body.
\* Not ok: fetch rejected or json() threw; data: the Error caught.
Ok(data) == [ok |-> TRUE, data |-> data]

Fail == [ok |-> FALSE, data |-> [message |-> <<"Failed to fetch">>]]

NoResp == [ok |-> FALSE, data |-> [none |-> TRUE]]

R1 == [title |-> "T1", snippet |-> "S1", source |-> "web", url |-> "u1"]

R2 == [title |-> "T2", snippet |-> "S2", source |-> "web", url |-> "u2"]

\* POST /api/agent/search: a result list, or a body without a results
\* field; or no usable response at all.
SearchResponses ==
    {Fail, Ok([results |-> <<R1, R2>>]), Ok([error |-> <<"bad request">>])}

\* POST /api/agent/search-and-analyze.  The gateway's contract: the analysis
\* text is never empty, a model failure is reported as a literal analysis
\* string inside a success envelope.
AnalyzeResponses ==
    {Fail,
     Ok([search_results |-> <<R1, R2>>, analysis |-> <<"insights">>]),
     Ok([search_results |-> <<>>, analysis |-> <<"model unavailable">>])}

\* POST /api/agent/chat: a reply, or an empty reply; or no usable response
\* at all.
ChatResponses ==
    {Fail, Ok([response |-> <<"reply">>]), Ok([response |-> EmptyText])}

\* GET /api/agent/status
StatusResponses == {Fail, Ok([status |-> "healthy"])}

\* the value null of agentStatus: agentStatus?.status is then undefined
NullStatus == [status |-> "null"]

\* data[key] || dflt for a text field: an absent field and '' are falsy
TextOr(data, key, dflt) ==
    IF key \in DOMAIN data /\ data[key] # EmptyText THEN data[key] ELSE dflt

\* data[key] || [] for a list field: an absent field is falsy, [] is not
ListOr(data, key) ==
    IF key \in DOMAIN data THEN data[key] ELSE <<>>

\* the number of search, search-and-analyze and chat requests issued
Issued == nextId.search + nextId.chat

\* the record of the step just taken
Step(op, handler, id, resp) ==
    [op |-> op, handler |-> handler, id |-> id, resp |-> resp]

----------------------------------------------------------------------------
(* Construction and mount *)

Init ==
    /\ searchQuery = EmptyText
    /\ searchResults = <<>>
    /\ isSearching = FALSE
    /\ chatMessages = <<>>
    /\ chatInput = EmptyText
    /\ isChatting = FALSE
    /\ analysis = EmptyText
    /\ isAnalyzing = FALSE
    /\ agentStatus = NullStatus
    /\ activeTab = "search"
    /\ mounted = FALSE
    /\ inflight = {}
    /\ nextId = [search |-> 0, chat |-> 0, analyze |-> 0]
    /\ polls = 0
    /\ last = Step("init", "-", 0, NoResp)

\* useEffect(() => { checkAgentStatus() }, []) and the synchronous part of
\* checkAgentStatus: the fetch of the status is issued.
Mount ==
    /\ ~mounted
    /\ mounted' = TRUE
    /\ inflight' = inflight \cup {Request(0, "status", EmptyText, EmptyText, <<>>)}
    /\ polls' = polls + 1
    /\ last' = Step("mount", "checkAgentStatus", 0, NoResp)
    /\ UNCHANGED <<appState, nextId>>

\* mutant: the catch block sets no status
AgentStatusAfterNoCatch(resp) == IF resp.ok THEN resp.data ELSE NullStatus

\* App.jsx:40 and 43
AgentStatusAfter(resp) ==
    IF resp.ok THEN resp.data
    ELSE [status |-> "unhealthy", error |-> resp.data.message]

\* the continuation of checkAgentStatus
SettleStatus(r, resp) ==
    /\ r \in inflight /\ r.kind = "status"
    /\ resp \in StatusResponses
    /\ agentStatus' = AgentStatusAfter(resp)
    /\ inflight' = inflight \ {r}
    /\ last' = Step("settle", "checkAgentStatus", r.id, resp)
    /\ UNCHANGED <<searchQuery, searchResults, isSearching, chatMessages,
                   chatInput, isChatting, analysis, isAnalyzing, activeTab,
                   mounted, nextId, polls>>

----------------------------------------------------------------------------
(* Inputs that only edit a field *)

\* onChange of the search input, App.jsx:207
SetSearchQuery(v) ==
    /\ mounted
    /\ v # searchQuery
    /\ searchQuery' = v
    /\ UNCHANGED <<searchResults, isSearching, chatMessages, chatInput,
                   isChatting, analysis, isAnalyzing, agentStatus, activeTab,
                   mounted, inflight, nextId, polls, last>>

\* onChange of the chat textarea, App.jsx:379
SetChatInput(v) ==
    /\ mounted
    /\ v # chatInput
    /\ chatInput' = v
    /\ UNCHANGED <<searchQuery, searchResults, isSearching, chatMessages,
                   isChatting, analysis, isAnalyzing, agentStatus, activeTab,
                   mounted, inflight, nextId, polls, last>>

\* onValueChange of the tabs, App.jsx:238
SelectTab(t) ==
    /\ mounted
    /\ t # activeTab
    /\ activeTab' = t
    /\ UNCHANGED <<searchQuery, searchResults, isSearching, chatMessages,
                   chatInput, isChatting, analysis, isAnalyzing, agentStatus,
                   mounted, inflight, nextId, polls, last>>

----------------------------------------------------------------------------
(* Steps that change no state of the component *)

\* a handler that returns at its guard (App.jsx:48, 74, 105)
Rejected(handler) ==
    /\ last' = Step("rejected", handler, 0, NoResp)
    /\ UNCHANGED <<appState, mounted, inflight, nextId, polls>>

\* a key press that handleKeyPress lets pass (App.jsx:146)
Ignored == UNCHANGED vars

----------------------------------------------------------------------------
(* Search: handleSearch, App.jsx:47-71 *)

\* App.jsx:50-61: setIsSearching(true) and the fetch
SubmitSearch ==
    /\ Issued < MaxRequests
    /\ isSearching' = TRUE
    /\ inflight' = inflight \cup
           {Request(nextId.search + 1, "search", searchQuery, EmptyText, <<>>)}
    /\ nextId' = [nextId EXCEPT !.search = @ + 1]
    /\ last' = Step("submit", "handleSearch", nextId.search + 1, NoResp)
    /\ UNCHANGED <<searchQuery, searchResults, chatMessages, chatInput,
                   isChatting, analysis, isAnalyzing, agentStatus, activeTab,
                   mounted, polls>>

HandleSearch ==
    IF Blank(searchQuery) THEN Rejected("handleSearch") ELSE SubmitSearch

\* App.jsx:64 and 67
SearchResultsAfter(resp) ==
    IF resp.ok THEN ListOr(resp.data, "results") ELSE <<>>

\* mutant: the flag is cleared in the try block only
SearchingAfterTryOnly(resp) == ~resp.ok

\* App.jsx:68-70: the finally block
SearchingAfter(resp) == FALSE

\* the continuation of handleSearch, App.jsx:63-70
SettleSearch(r, resp) ==
    /\ r \in inflight /\ r.kind = "search"
    /\ resp \in SearchResponses
    /\ searchResults' = SearchResultsAfter(resp)
    /\ isSearching' = SearchingAfter(resp)
    /\ inflight' = inflight \ {r}
    /\ last' = Step("settle", "handleSearch", r.id, resp)
    /\ UNCHANGED <<searchQuery, chatMessages, chatInput, isChatting, analysis,
                   isAnalyzing, agentStatus, activeTab, mounted, nextId, polls>>

----------------------------------------------------------------------------
(* Search and analyze: handleSearchAndAnalyze, App.jsx:73-102 *)

\* App.jsx:76-88: both busy flags and the fetch
SubmitAnalyze ==
    /\ Issued < MaxRequests
    /\ isSearching' = TRUE
    /\ isAnalyzing' = TRUE
    /\ inflight' = inflight \cup
           {Request(nextId.search + 1, "analyze", searchQuery, EmptyText, <<>>)}
    /\ nextId' = [nextId EXCEPT !.search = @ + 1, !.analyze = nextId.search + 1]
    /\ last' = Step("submit", "handleSearchAndAnalyze", nextId.search + 1, NoResp)
    /\ UNCHANGED <<searchQuery, searchResults, chatMessages, chatInput,
                   isChatting, analysis, agentStatus, activeTab, mounted,
                   polls>>

HandleSearchAndAnalyze ==
    IF Blank(searchQuery) THEN Rejected("handleSearchAndAnalyze")
    ELSE SubmitAnalyze

\* App.jsx:91 and 96
AnalyzedResultsAfter(resp) ==
    IF resp.ok THEN ListOr(resp.data, "search_results") ELSE <<>>

\* mutant: the catch block clears the analysis
AnalysisAfterCleared(resp) ==
    IF resp.ok THEN TextOr(resp.data, "analysis", EmptyText) ELSE EmptyText

\* App.jsx:92 and 97
AnalysisAfter(resp) ==
    IF resp.ok THEN TextOr(resp.data, "analysis", EmptyText)
    ELSE <<"Error occurred during analysis.">>

\* App.jsx:93: only the try block switches the tab
ActiveTabAfter(resp, tab) == IF resp.ok THEN "analysis" ELSE tab

\* mutant: the finally block clears isSearching only
AnalyzeFlagsAfterOne(resp) == <<FALSE, TRUE>>

\* App.jsx:98-101: the finally block, <<isSearching, isAnalyzing>>
AnalyzeFlagsAfter(resp) == <<FALSE, FALSE>>

\* the continuation of handleSearchAndAnalyze, App.jsx:90-101
SettleAnalyze(r, resp) ==
    /\ r \in inflight /\ r.kind = "analyze"
    /\ resp \in AnalyzeResponses
    /\ searchResults' = AnalyzedResultsAfter(resp)
    /\ analysis' = AnalysisAfter(resp)
    /\ activeTab' = ActiveTabAfter(resp, activeTab)
    /\ isSearching' = AnalyzeFlagsAfter(resp)[1]
    /\ isAnalyzing' = AnalyzeFlagsAfter(resp)[2]
    /\ inflight' = inflight \ {r}
    /\ last' = Step("settle", "handleSearchAndAnalyze", r.id, resp)
    /\ UNCHANGED <<searchQuery, chatMessages, chatInput, isChatting,
                   agentStatus, mounted, nextId, polls>>

----------------------------------------------------------------------------
(* Chat: handleChat, App.jsx:104-143 *)

\* A ChatMessage.  sub stands for the timestamp: it tells the messages of
\* one submission from those of another.
ChatMessage(role, content, sub) ==
    [role |-> role, content |-> content, sub |-> sub]

\* mutant: prev => [message, ...prev]
PrependMessage(prev, message) == <<message>> \o prev

\* prev => [...prev, message], App.jsx:108, 131, 139
AppendMessage(prev, message) == Append(prev, message)

\* App.jsx:107-123: the user's message, the cleared input, the busy flag
\* and the fetch; the body carries the chatInput and the chatMessages of
\* the render the handler belongs to.
SubmitChat ==
    /\ Issued < MaxRequests
    /\ chatMessages' =
           AppendMessage(chatMessages,
                         ChatMessage("user", chatInput, nextId.chat + 1))
    /\ chatInput' = EmptyText
    /\ isChatting' = TRUE
    /\ inflight' = inflight \cup
           {Request(nextId.chat + 1, "chat", EmptyText, chatInput, chatMessages)}
    /\ nextId' = [nextId EXCEPT !.chat = @ + 1]
    /\ last' = Step("submit", "handleChat", nextId.chat + 1, NoResp)
    /\ UNCHANGED <<searchQuery, searchResults, isSearching, analysis,
                   isAnalyzing, agentStatus, activeTab, mounted, polls>>

HandleChat ==
    IF Blank(chatInput) THEN Rejected("handleChat") ELSE SubmitChat

\* App.jsx:128 and 136
ReplyContent(resp) ==
    IF resp.ok
    THEN TextOr(resp.data, "response", <<"Sorry, I encountered an error.">>)
    ELSE <<"Sorry, I encountered an error while processing your message.">>

\* mutant: the error message is appended by the catch block and once more
\* after it
RepliesForTwiceOnError(r, resp) ==
    IF resp.ok THEN <<ChatMessage("assistant", ReplyContent(resp), r.id)>>
    ELSE <<ChatMessage("assistant", ReplyContent(resp), r.id),
           ChatMessage("assistant", ReplyContent(resp), r.id)>>

\* mutant: the catch block appends nothing
RepliesForTryOnly(r, resp) ==
    IF resp.ok THEN <<ChatMessage("assistant", ReplyContent(resp), r.id)>>
    ELSE <<>>

\* the messages the continuation appends for one settled request:
\* assistantMessage in the try block, errorMessage in the catch block
RepliesFor(r, resp) == <<ChatMessage("assistant", ReplyContent(resp), r.id)>>

RECURSIVE AppendAll(_, _)
AppendAll(prev, messages) ==
    IF messages = <<>> THEN prev
    ELSE AppendAll(AppendMessage(prev, Head(messages)), Tail(messages))

\* mutant: setChatMessages([...chatMessages, message]) with the chatMessages
\* of the handler's closure in place of the updater's prev
TranscriptAfterStale(prev, r, resp) == AppendAll(r.history, RepliesFor(r, resp))

\* setChatMessages(prev => [...prev, message]), App.jsx:131 and 139
TranscriptAfter(prev, r, resp) == AppendAll(prev, RepliesFor(r, resp))

\* the continuation of handleChat, App.jsx:125-142
SettleChat(r, resp) ==
    /\ r \in inflight /\ r.kind = "chat"
    /\ resp \in ChatResponses
    /\ chatMessages' = TranscriptAfter(chatMessages, r, resp)
    /\ isChatting' = FALSE
    /\ inflight' = inflight \ {r}
    /\ last' = Step("settle", "handleChat", r.id, resp)
    /\ UNCHANGED <<searchQuery, searchResults, isSearching, chatInput,
                   analysis, isAnalyzing, agentStatus, activeTab, mounted,
                   nextId, polls>>

----------------------------------------------------------------------------
(* The controls *)

\* disabled of the Search button, App.jsx:213
SearchDisabled == isSearching \/ Blank(searchQuery)

\* disabled of the Search & Analyze button, App.jsx:221
AnalyzeDisabled == isSearching \/ isAnalyzing \/ Blank(searchQuery)

\* mutant: one busy flag for the whole page
ChatDisabledGlobal == isChatting \/ isSearching \/ Blank(chatInput)

\* disabled of the Send button, App.jsx:385
ChatDisabled == isChatting \/ Blank(chatInput)

\* onClick of the three buttons; a disabled button gets no click
ClickSearch == mounted /\ ~SearchDisabled /\ HandleSearch

ClickAnalyze == mounted /\ ~AnalyzeDisabled /\ HandleSearchAndAnalyze

ClickChat == mounted /\ ~ChatDisabled /\ HandleChat

\* the key events of the two inputs
Keys ==
    {[key |-> "Enter", shiftKey |-> FALSE], [key |-> "Enter", shiftKey |-> TRUE],
     [key |-> "a", shiftKey |-> FALSE]}

\* App.jsx:145-150
HandleKeyPress(e, action) ==
    IF e.key = "Enter" /\ ~e.shiftKey THEN action ELSE Ignored

\* onKeyPress of the search input, App.jsx:208
KeyPressSearch(e) == mounted /\ HandleKeyPress(e, HandleSearch)

\* onKeyPress of the chat textarea, App.jsx:380
KeyPressChat(e) == mounted /\ HandleKeyPress(e, HandleChat)

----------------------------------------------------------------------------
(* Specifications *)

Next ==
    \/ Mount
    \/ \E r \in inflight, resp \in StatusResponses : SettleStatus(r, resp)
    \/ \E v \in Texts : SetSearchQuery(v)
    \/ \E v \in Texts : SetChatInput(v)
    \/ \E t \in Tabs : SelectTab(t)
    \/ ClickSearch
    \/ ClickAnalyze
    \/ ClickChat
    \/ \E e \in Keys : KeyPressSearch(e)
    \/ \E e \in Keys : KeyPressChat(e)
    \/ \E r \in inflight, resp \in SearchResponses : SettleSearch(r, resp)
    \/ \E r \in inflight, resp \in AnalyzeResponses : SettleAnalyze(r, resp)
    \/ \E r \in inflight, resp \in ChatResponses : SettleChat(r, resp)

Spec == Init /\ [][Next]_vars

\* every issued request eventually settles
Settles ==
    /\ WF_vars(\E r \in inflight, resp \in StatusResponses : SettleStatus(r, resp))
    /\ WF_vars(\E r \in inflight, resp \in SearchResponses : SettleSearch(r, resp))
    /\ WF_vars(\E r \in inflight, resp \in AnalyzeResponses : SettleAnalyze(r, resp))
    /\ WF_vars(\E r \in inflight, resp \in ChatResponses : SettleChat(r, resp))

FairSpec == Init /\ [][Next]_vars /\ Settles

----------------------------------------------------------------------------
(* Vocabulary of the properties *)

\* this step is the step `op` of `handler`
HandlerStep(op, handler) ==
    /\ last' # last
    /\ last'.op = op
    /\ last'.handler = handler

\* the requests of one kind in flight
InFlight(kind) == {r \in inflight : r.kind = kind}

\* the positions of the transcript holding a message of `role` of submission `sub`
Positions(msgs, role, sub) ==
    {i \in 1..Len(msgs) : msgs[i].role = role /\ msgs[i].sub = sub}

\* a text of whitespace only, the empty text included
WhitespaceOnly(text) == \A i \in 1..Len(text) : text[i] \in {" ", "\n", "\t"}

IsPrefix(s, t) == Len(s) <= Len(t) /\ SubSeq(t, 1, Len(s)) = s

----------------------------------------------------------------------------
(* C1 *)

C1_SubmitAppendsUser ==
    HandlerStep("submit", "handleChat") =>
        /\ Len(chatMessages') = Len(chatMessages) + 1
        /\ IsPrefix(chatMessages, chatMessages')
        /\ chatMessages'[Len(chatMessages')].role = "user"
        /\ chatMessages'[Len(chatMessages')].sub = last'.id
        /\ \E r \in InFlight("chat")' : r.id = last'.id
        /\ Positions(chatMessages', "assistant", last'.id) = {}

C1_AssistantAppendedLater ==
    \A j \in (Len(chatMessages) + 1)..Len(chatMessages') :
        chatMessages'[j].role = "assistant" =>
            /\ \E r \in InFlight("chat") : r.id = chatMessages'[j].sub
            /\ Positions(chatMessages, "user", chatMessages'[j].sub) # {}

C1_AssistantAfterItsUser ==
    \A j \in 1..Len(chatMessages) :
        chatMessages[j].role = "assistant" =>
            \E i \in 1..(j - 1) :
                /\ chatMessages[i].role = "user"
                /\ chatMessages[i].sub = chatMessages[j].sub

\* C1: every accepted chat submission appends the user's message in the
\* submit step itself, while its request is still in flight and before any
\* reply to it exists; the assistant message of that submission is appended
\* in a later step and stands at a later position than that user message,
\* in whatever order the requests in flight settle.
C1_OptimisticAppend ==
    /\ [][C1_SubmitAppendsUser /\ C1_AssistantAppendedLater]_vars
    /\ []C1_AssistantAfterItsUser

\* two overlapping submissions answered in the reverse order
C1_Witness ==
    \E i, j \in 1..Len(chatMessages) :
        /\ i < j
        /\ chatMessages[i].role = "assistant"
        /\ chatMessages[j].role = "assistant"
        /\ chatMessages[i].sub > chatMessages[j].sub

----------------------------------------------------------------------------
(* C2 *)

FallbackTexts ==
    {<<"Sorry, I encountered an error.">>,
     <<"Sorry, I encountered an error while processing your message.">>}

HasResponseText(resp) ==
    resp.ok /\ "response" \in DOMAIN resp.data /\ resp.data.response # <<>>

C2_SettleAppendsOne ==
    HandlerStep("settle", "handleChat") =>
        /\ Len(chatMessages') = Len(chatMessages) + 1
        /\ IsPrefix(chatMessages, chatMessages')
        /\ chatMessages'[Len(chatMessages')].role = "assistant"
        /\ chatMessages'[Len(chatMessages')].sub = last'.id
        /\ IF HasResponseText(last'.resp)
           THEN chatMessages'[Len(chatMessages')].content = last'.resp.data.response
           ELSE chatMessages'[Len(chatMessages')].content \in FallbackTexts

C2_OnePerSubmission ==
    \A sub \in 1..nextId.chat :
        Positions(chatMessages, "user", sub) # {} =>
            Cardinality(Positions(chatMessages, "assistant", sub)) =
                IF \E r \in InFlight("chat") : r.id = sub THEN 0 ELSE 1

\* C2: when the request of an accepted chat submission settles, exactly one
\* message with role assistant is appended for it: the response text on
\* success, a literal fallback text when the response carries no text or the
\* call fails; a settled submission has one assistant message, never zero
\* and never two, and a submission in flight has none.
C2_ExactlyOneReply ==
    /\ [][C2_SettleAppendsOne]_vars
    /\ []C2_OnePerSubmission

\* a chat call has failed and its fallback message closes the transcript
C2_Witness ==
    /\ last.op = "settle" /\ last.handler = "handleChat" /\ ~last.resp.ok
    /\ Len(chatMessages) = 2
    /\ chatMessages[2].content \in FallbackTexts
    /\ InFlight("chat") = {}

----------------------------------------------------------------------------
(* C3 *)

C3_RejectedChangesNothing ==
    (last' # last /\ last'.op = "rejected") =>
        /\ UNCHANGED appState
        /\ inflight' = inflight
        /\ nextId' = nextId

C3_BlankIsRejected ==
    /\ (WhitespaceOnly(searchQuery) /\ last' # last
            /\ last'.handler \in {"handleSearch", "handleSearchAndAnalyze"}
            /\ last'.op # "settle")
        => last'.op = "rejected"
    /\ (WhitespaceOnly(chatInput) /\ last' # last
            /\ last'.handler = "handleChat" /\ last'.op # "settle")
        => last'.op = "rejected"
    /\ WhitespaceOnly(searchQuery) =>
           /\ InFlight("search")' \subseteq InFlight("search")
           /\ InFlight("analyze")' \subseteq InFlight("analyze")
    /\ WhitespaceOnly(chatInput) =>
           InFlight("chat")' \subseteq InFlight("chat")

\* C3: a search or search-and-analyze trigger with an empty or
\* whitespace-only searchQuery, and a chat trigger with an empty or
\* whitespace-only chatInput, by button or by Enter key, issues no request
\* and leaves every state variable of the component unchanged.
C3_InvalidInputGuard ==
    [][C3_RejectedChangesNothing /\ C3_BlankIsRejected]_vars

\* Enter was pressed on a whitespace-only query while nothing is in flight
C3_Witness ==
    /\ last.op = "rejected" /\ last.handler = "handleSearch"
    /\ searchQuery = <<" ">>
    /\ Issued = 0

----------------------------------------------------------------------------
(* C4 *)

C4_SubmitEntersSearching ==
    HandlerStep("submit", "handleSearch") =>
        /\ isSearching'
        /\ \E r \in InFlight("search")' : r.id = last'.id /\ r \notin inflight

C4_SettleLeavesSearching ==
    HandlerStep("settle", "handleSearch") =>
        /\ ~isSearching'
        /\ \E r \in InFlight("search") : r.id = last'.id /\ r \notin inflight'
        /\ searchResults' =
               IF last'.resp.ok /\ "results" \in DOMAIN last'.resp.data
               THEN last'.resp.data.results
               ELSE <<>>

\* C4: an accepted search submit sets isSearching; when that request
\* settles, by response or by failure, isSearching is cleared and
\* searchResults is the response's result list, or the empty list both for a
\* response without results and for a failed call; and if every issued
\* request eventually settles, the region does not stay in Searching.
C4_SearchRegion ==
    /\ [][C4_SubmitEntersSearching /\ C4_SettleLeavesSearching]_vars
    /\ (isSearching ~> ~isSearching)

\* a search has failed: not searching, and the list shows no results
C4_Witness ==
    /\ last.op = "settle" /\ last.handler = "handleSearch" /\ ~last.resp.ok
    /\ ~isSearching
    /\ searchResults = <<>>

----------------------------------------------------------------------------
(* C5 *)

C5_SubmitSetsBoth ==
    HandlerStep("submit", "handleSearchAndAnalyze") =>
        /\ isSearching' /\ isAnalyzing'
        /\ inflight \subseteq inflight'
        /\ Cardinality(inflight' \ inflight) = 1
        /\ \A r \in inflight' \ inflight : r.kind = "analyze" /\ r.id = last'.id

C5_SettleClearsBoth ==
    HandlerStep("settle", "handleSearchAndAnalyze") =>
        /\ ~isSearching' /\ ~isAnalyzing'
        /\ inflight' \subseteq inflight
        /\ Cardinality(inflight \ inflight') = 1

C5_FlagsAgree ==
    last.handler = "handleSearchAndAnalyze" /\ last.op \in {"submit", "settle"}
        => isSearching = isAnalyzing

\* C5: an accepted search-and-analyze submit sets isSearching and
\* isAnalyzing in one step and issues exactly one request; the step that
\* settles it clears both flags together; no state left by a step of this
\* handler has exactly one of the two flags set.
C5_BothFlagsTogether ==
    /\ [][C5_SubmitSetsBoth /\ C5_SettleClearsBoth]_vars
    /\ []C5_FlagsAgree

\* a search-and-analyze request has settled and both flags are clear
C5_Witness ==
    /\ last.op = "settle" /\ last.handler = "handleSearchAndAnalyze"
    /\ ~isSearching /\ ~isAnalyzing

----------------------------------------------------------------------------
(* C6 *)

C6_SettleShowsAnalysis ==
    HandlerStep("settle", "handleSearchAndAnalyze") =>
        /\ analysis' # EmptyText
        /\ analysis' =
               IF last'.resp.ok THEN last'.resp.data.analysis
               ELSE <<"Error occurred during analysis.">>

C6_StaysShown == analysis # EmptyText => analysis' # EmptyText

----------------------------------------------------------------------------
(* C7 *)

C7_PolledAtMountOnly ==
    /\ polls' # polls => ~mounted /\ mounted' /\ polls' = 1
    /\ \A r \in inflight' \ inflight : r.kind = "status" => ~mounted

C7_StatusFromPoll ==
    agentStatus' # agentStatus =>
        /\ HandlerStep("settle", "checkAgentStatus")
        /\ IF last'.resp.ok THEN agentStatus' = last'.resp.data
           ELSE agentStatus'.status = "unhealthy"

C7_SettleSetsStatus ==
    HandlerStep("settle", "checkAgentStatus") =>
        /\ agentStatus' # NullStatus
        /\ InFlight("status")' = {}

C7_StatusFinal == agentStatus # NullStatus => agentStatus' = agentStatus

\* C7: the status poll is issued once, by the mount effect, and by nothing
\* else; it settles into the gateway's response on success and into a status
\* of unhealthy on failure, and once set agentStatus never changes.
C7_StatusPolledOnce ==
    /\ [][C7_PolledAtMountOnly /\ C7_StatusFromPoll /\ C7_SettleSetsStatus
            /\ C7_StatusFinal]_vars
    /\ [](polls <= 1)

\* the poll failed, and requests of the other handlers have since been
\* issued and settled
C7_Witness ==
    /\ agentStatus.status = "unhealthy"
    /\ polls = 1
    /\ Issued = MaxRequests
    /\ inflight = {}

----------------------------------------------------------------------------
(* C8 *)

C8_Grows ==
    /\ IsPrefix(chatMessages, chatMessages')
    /\ Len(chatMessages') \in {Len(chatMessages), Len(chatMessages) + 1}

\* C8: the transcript is an append-only log: in every step the old
\* chatMessages is a prefix of the new one and the length grows by 0 or 1;
\* no step of search, analysis, status or chat, in whatever order
\* overlapping chat requests settle, removes, reorders or rewrites a message.
C8_AppendOnly == [][C8_Grows]_vars

\* a reply was appended below a message of a later submission
C8_Witness ==
    /\ Len(chatMessages) >= 3
    /\ chatMessages[1].role = "user"
    /\ chatMessages[2].role = "user"
    /\ chatMessages[3].role = "assistant"
    /\ last.op = "settle" /\ last.handler = "handleChat"

----------------------------------------------------------------------------
(* C9 *)

\* C9: the busy flags keep a second submit from starting while a call of
\* the same region is in flight, whatever the trigger: no search or
\* search-and-analyze request starts while isSearching, no chat request
\* starts while isChatting, and so at most one request of each region is in
\* flight in every reachable state.
C9_OneInFlightPerRegion ==
    /\ Cardinality(InFlight("search") \cup InFlight("analyze")) <= 1
    /\ Cardinality(InFlight("chat")) <= 1

----------------------------------------------------------------------------
(* C10 *)

SearchStep == last' # last /\ last'.handler = "handleSearch"

AnalyzeStep == last' # last /\ last'.handler = "handleSearchAndAnalyze"

ChatStep == last' # last /\ last'.handler = "handleChat"

C10_SearchFrame ==
    SearchStep =>
        /\ UNCHANGED <<isAnalyzing, isChatting>>
        /\ UNCHANGED <<analysis, chatMessages, activeTab>>
        /\ ChatDisabled' = ChatDisabled

C10_AnalyzeFrame ==
    AnalyzeStep =>
        /\ UNCHANGED isChatting
        /\ UNCHANGED chatMessages
        /\ ChatDisabled' = ChatDisabled

C10_ChatFrame ==
    ChatStep =>
        /\ UNCHANGED <<isSearching, isAnalyzing>>
        /\ UNCHANGED <<searchResults, analysis, activeTab>>
        /\ SearchDisabled' = SearchDisabled
        /\ AnalyzeDisabled' = AnalyzeDisabled

C10_SearchSparesAnalyzeControl ==
    SearchStep => AnalyzeDisabled' = AnalyzeDisabled

C10_AnalyzeSparesSearchControl ==
    AnalyzeStep => SearchDisabled' = SearchDisabled

\* C10 as stated: every call changes only the busy flag of its own region,
\* and starting or settling a call of one region never disables or
\* re-enables the submit control of another region: the three regions being
\* search, analysis and chat with the controls Search, Search & Analyze and
\* Send.
C10_OnlyOwnRegion ==
    [][C10_SearchFrame /\ C10_AnalyzeFrame /\ C10_ChatFrame
         /\ C10_SearchSparesAnalyzeControl
         /\ C10_AnalyzeSparesSearchControl]_vars

C10_SharedFlag ==
    /\ HandlerStep("submit", "handleSearch") => AnalyzeDisabled'
    /\ HandlerStep("submit", "handleSearchAndAnalyze") => SearchDisabled'

\* C10 as amended: a search call changes no busy flag but isSearching, a
\* search-and-analyze call none but isSearching and isAnalyzing, a chat call
\* none but isChatting; a search step leaves analysis, chatMessages and
\* activeTab unchanged, a chat step leaves searchResults, analysis and
\* activeTab unchanged; a search or search-and-analyze call never disables or
\* re-enables Send and a chat call never disables or re-enables Search or
\* Search & Analyze; but Search and Search & Analyze share isSearching, and a
\* submit of either disables both.
C10_OwnRegionSharedSearchFlag ==
    [][C10_SearchFrame /\ C10_AnalyzeFrame /\ C10_ChatFrame /\ C10_SharedFlag]_vars

\* a search is in flight, Search & Analyze is disabled by it, and Send is
\* still enabled
C10_Witness ==
    /\ last.op = "submit" /\ last.handler = "handleSearch"
    /\ isSearching /\ ~isAnalyzing
    /\ AnalyzeDisabled
    /\ ~ChatDisabled

----------------------------------------------------------------------------
(* C11 *)

\* C11: in every reachable state the transcript alternates: it starts with a
\* user message, every message at an odd position is a user message, every
\* message at an even position an assistant message, and so no two adjacent
\* messages have the same role, whatever the chat submits and the order in
\* which the chat requests settle.
C11_Alternates ==
    \A i \in 1..Len(chatMessages) :
        chatMessages[i].role = IF i % 2 = 1 THEN "user" ELSE "assistant"

----------------------------------------------------------------------------
(* C12 *)

C12_BodyOfSubmit ==
    HandlerStep("submit", "handleChat") =>
        /\ Cardinality(inflight' \ inflight) = 1
        /\ \A r \in inflight' \ inflight :
               /\ r.kind = "chat"
               /\ r.history = chatMessages
               /\ r.history = SubSeq(chatMessages', 1, Len(chatMessages') - 1)
               /\ r.message = chatMessages'[Len(chatMessages')].content
               /\ r.message = chatInput
        /\ chatInput' = EmptyText

C12_BodyKept ==
    \A r \in InFlight("chat") :
        \E i \in 1..Len(chatMessages) :
            /\ chatMessages[i].role = "user"
            /\ chatMessages[i].sub = r.id
            /\ chatMessages[i].content = r.message
            /\ r.history = SubSeq(chatMessages, 1, i - 1)

\* C12: the conversation_history of every chat request is the whole
\* transcript as it stood just before the user message of this submission
\* was appended, all earlier messages in order and not the new one, and the
\* message of the request is the content of the user message just appended,
\* although chatInput is cleared in the same step.
C12_HistoryResent ==
    /\ [][C12_BodyOfSubmit]_vars
    /\ []C12_BodyKept

\* a second chat request is in flight: it carries the first exchange as its
\* history, and the input is already cleared
C12_Witness ==
    /\ last.op = "submit" /\ last.handler = "handleChat"
    /\ chatInput = EmptyText
    /\ \E r \in InFlight("chat") :
           /\ Len(r.history) = 2
           /\ r.history[1].role = "user"
           /\ r.history[2].role = "assistant"
           /\ r.message = <<"cats", " ">>

----------------------------------------------------------------------------
(* C13 *)

\* the request `id` of the search controls has been issued and has settled
SettledSearchRequest(id) ==
    /\ id >= 1
    /\ id <= nextId.search
    /\ ~\E r \in InFlight("search") \cup InFlight("analyze") : r.id = id

\* this step settles a request of the search controls that is older than
\* the latest one, which has settled before
LateResults ==
    /\ last' # last
    /\ last'.op = "settle"
    /\ last'.handler \in {"handleSearch", "handleSearchAndAnalyze"}
    /\ last'.id < nextId.search
    /\ SettledSearchRequest(nextId.search)

\* this step settles a search-and-analyze request that is older than the
\* latest one, which has settled before
LateAnalysis ==
    /\ HandlerStep("settle", "handleSearchAndAnalyze")
    /\ last'.id < nextId.analyze
    /\ SettledSearchRequest(nextId.analyze)

\* C13: a late response never overwrites newer results: once the most
\* recently submitted search or search-and-analyze request has settled,
\* searchResults stays its outcome, and once the most recently submitted
\* search-and-analyze request has settled, analysis stays its outcome, so
\* that with nothing in flight both show the outcome of the latest request,
\* in whatever order overlapping requests settle.
C13_LateNeverOverwrites ==
    [][/\ LateResults => searchResults' = searchResults
       /\ LateAnalysis => analysis' = analysis]_vars

----------------------------------------------------------------------------
(* C14 *)

\* C14: in every reachable state isAnalyzing implies isSearching: the
\* analysis-busy flag is never set while the search-busy flag is clear,
\* under any interleaving of search and search-and-analyze submits, by
\* button or Enter key, and of their settlements.
C14_AnalyzingImpliesSearching == isAnalyzing => isSearching

----------------------------------------------------------------------------
(* C15 *)

RECURSIVE CountRole(_, _)
CountRole(msgs, role) ==
    IF msgs = <<>> THEN 0
    ELSE (IF Head(msgs).role = role THEN 1 ELSE 0) + CountRole(Tail(msgs), role)

\* C15: in every reachable state the number of user messages of the
\* transcript minus the number of assistant messages is the number of chat
\* requests in flight; so assistant messages never outnumber user messages,
\* and with no chat request in flight the two numbers are equal.
C15_UserMinusAssistantIsInFlight ==
    /\ CountRole(chatMessages, "user") - CountRole(chatMessages, "assistant")
           = Cardinality(InFlight("chat"))
    /\ CountRole(chatMessages, "assistant") <= CountRole(chatMessages, "user")
    /\ InFlight("chat") = {} =>
           CountRole(chatMessages, "assistant") = CountRole(chatMessages, "user")

\* two chat requests overlap: one has been answered, the other is in flight
C15_Witness ==
    /\ CountRole(chatMessages, "user") = 2
    /\ CountRole(chatMessages, "assistant") = 1
    /\ Cardinality(InFlight("chat")) = 1
    /\ chatMessages[2].role = "user"

====
